---- MODULE Spec2Model ----
(***************************************************************************)
(* Model of openvoice/voice_server.py: the checkpoint bootstrap of the     *)
(* module startup, the SQLite registry (voice_models, generated_audio) and *)
(* the request handlers upload_voice, list_voices, synthesize_speech,      *)
(* get_audio and get_generation_history.                                   *)
(*                                                                         *)
(* The handlers are `async def` bodies without any await, served by one    *)
(* uvicorn process: a handler runs to its response before the next one     *)
(* starts.  Each handler is therefore a chain of steps driven by pc, and   *)
(* a new request is accepted only when pc = "idle".                        *)
(*                                                                         *)
(* The disk is a set of file paths and a set of directory paths; a path is *)
(* the tuple of its components.  f"{VOICES_DIR}/{voice_id}{ext}" is the    *)
(* tuple <<VOICES_DIR, voice_id, ext>> (the id has a fixed width, so the   *)
(* formatted string determines both parts).  str(uuid.uuid4()) is a token  *)
(* that was never issued before.  The neural network calls (get_se,        *)
(* BaseSpeakerTTS, tts, convert) and file/database calls either return or  *)
(* raise, by a nondeterministic choice.                                    *)
(***************************************************************************)
EXTENDS Integers, Sequences, FiniteSets, TLC

VARIABLES
    files,                 \* paths of the regular files on disk
    dirs,                  \* paths of the directories on disk
    voice_models,          \* committed rows of table voice_models
    generated_audio,       \* committed rows of table generated_audio
    pending,               \* rows inserted on the open connection, not committed
    tone_color_converter,  \* "unloaded" | "loaded" (module global, line 141)
    pc,                    \* position of the process
    call,                  \* locals of the handler call in progress / last finished
    response,              \* the last HTTP response
    issued                 \* uuid4 tokens handed out so far

vars == <<files, dirs, voice_models, generated_audio, pending,
          tone_color_converter, pc, call, response, issued>>

----------------------------------------------------------------------------
(* Bounds *)

MaxUuid == 3

Uuids == 1..MaxUuid

\* Request values.  An Optional[str] is a set with at most one element ({} is
\* None).  A content type "major/minor" is the tuple <<major, minor>>, a file
\* name is <<stem, suffix>>.  voice_id 0 is an id that was never issued.
\* UploadFile.content_type is Optional[str]: it is None for a multipart part
\* that carries a filename and no Content-Type header.
RequestIds == 0..MaxUuid
Names == {"alice"}
Descriptions == {{}}
Texts == {"hello"}
Speeds == {1}
ContentTypes == {{<<"audio", "wav">>}, {<<"text", "plain">>}, {<<"audio">>}, {<<>>}, {}}
Filenames == {<<"b", "">>, <<"c", ".pth">>}
Accents == {"en-us", "zh", "de"}

----------------------------------------------------------------------------
(* Configuration, lines 36-39 *)

CHECKPOINT_DIR == "checkpoints_v2"
VOICES_DIR == "voices"
AUDIO_DIR == "audio_files"
V1_BASE_DIR == "checkpoints"
TMP_DIR == "tmp"

----------------------------------------------------------------------------
(* The file system *)

exists(F, D, p) == p \in F \/ p \in D

IsPrefix(p, q) == Len(p) <= Len(q) /\ SubSeq(q, 1, Len(p)) = p

\* the directories an extracted archive A (a set of file paths) consists of,
\* the extraction root <<>> included
ArchDirs(A) == {<<>>} \cup UNION {{SubSeq(f, 1, k) : k \in 0..(Len(f) - 1)} : f \in A}

\* for root, dirs, files in os.walk(tmp_dir): if both markers exist: break.
\* os.walk is top-down and lists siblings in directory order, which is
\* arbitrary: the root found is any matching directory without a matching
\* proper ancestor.
WalkCandidates(A, markers) ==
    LET match == {r \in ArchDirs(A) :
                    \A m \in markers : exists(A, ArchDirs(A), r \o m)}
    IN  {r \in match : ~\E a \in match : a # r /\ IsPrefix(a, r)}

\* os.listdir(candidate_root)
listdir(A, r) == {f[Len(r) + 1] : f \in {g \in A : IsPrefix(r, g) /\ Len(g) > Len(r)}}

Rel(p, r) == SubSeq(p, Len(r) + 1, Len(p))

\* The merge loop over the items S of candidate_root r into directory base:
\* a directory item is moved only when its destination does not exist, a
\* file item is moved over its destination.
MergeItems(F, D, base, A, r, S) ==
    LET isdir(i) == (r \o <<i>>) \in ArchDirs(A)
        moved == {i \in S : isdir(i) => ~exists(F, D, base \o <<i>>)}
        under(p) == IsPrefix(r, p) /\ Len(p) > Len(r) /\ p[Len(r) + 1] \in moved
    IN  [files |-> F \cup {base \o Rel(f, r) : f \in {g \in A : under(g)}},
         dirs  |-> D \cup {base \o Rel(d, r) : d \in {g \in ArchDirs(A) : under(g)}}]

\* The body shared by ensure_checkpoints and ensure_base_checkpoints_v1: the
\* set of outcomes [ok, files, dirs] of one call, ok = FALSE when it raises.
\* download = [ok, archive]: whether urlretrieve/ZipFile succeed, and the
\* files of the archive.
EnsureOutcomes(F, D, base, required, markers, download) ==
    IF \A p \in required : exists(F, D, p)
    THEN {[ok |-> TRUE, files |-> F, dirs |-> D]}
    ELSE LET D1 == D \cup {base}                        \* os.makedirs
             A == download.archive
             raised == [ok |-> FALSE, files |-> F, dirs |-> D1]
         IN  IF ~download.ok THEN {raised}
             ELSE IF WalkCandidates(A, markers) = {} THEN {raised}
             ELSE UNION {
                    {[ok    |-> S = listdir(A, r),     \* a failing move raises
                      files |-> MergeItems(F, D1, base, A, r, S).files,
                      dirs  |-> MergeItems(F, D1, base, A, r, S).dirs]
                       : S \in SUBSET listdir(A, r)}
                    : r \in WalkCandidates(A, markers)}

ConverterMarkers == {<<"converter", "config.json">>, <<"converter", "checkpoint.pth">>}

RequiredV2(checkpoint_dir) ==
    {<<checkpoint_dir, "converter", "config.json">>,
     <<checkpoint_dir, "converter", "checkpoint.pth">>,
     <<checkpoint_dir, "base_speakers", "ses", "en-newest.pth">>}

ensure_checkpoints(F, D, checkpoint_dir, download) ==
    EnsureOutcomes(F, D, <<checkpoint_dir>>, RequiredV2(checkpoint_dir),
                   ConverterMarkers, download)

ENMarkers == {<<"base_speakers", "EN", "config.json">>,
              <<"base_speakers", "EN", "checkpoint.pth">>}

RequiredV1 == {<<V1_BASE_DIR>> \o m : m \in ENMarkers}

ensure_base_checkpoints_v1(F, D, download) ==
    EnsureOutcomes(F, D, <<V1_BASE_DIR>>, RequiredV1, ENMarkers, download)

----------------------------------------------------------------------------
(* Module startup, lines 42-43, 136-142, 206 *)

NoCall == [op |-> "none"]
NoResponse == [op |-> "none", status |-> 0]

DirsOf(F) == UNION {{SubSeq(f, 1, k) : k \in 1..(Len(f) - 1)} : f \in F}

\* what the downloaded zip can hold
V2ArchivePaths ==
    {<<"checkpoints_v2", "converter", "config.json">>,
     <<"checkpoints_v2", "converter", "checkpoint.pth">>,
     <<"checkpoints_v2", "base_speakers", "ses", "en-newest.pth">>,
     <<"checkpoints_v2", "base_speakers", "ses", "en-us.pth">>,
     <<"converter", "config.json">>,
     <<"converter", "checkpoint.pth">>}

V1ArchivePaths ==
    {<<"checkpoints", "base_speakers", "EN", "config.json">>,
     <<"checkpoints", "base_speakers", "EN", "checkpoint.pth">>}

\* The outcomes of urlretrieve and ZipFile: [ok, archive].  Nothing is
\* downloaded when the required paths exist.
Downloads(F, D, required, paths) ==
    IF \A p \in required : exists(F, D, p)
    THEN {[ok |-> FALSE, archive |-> {}]}
    ELSE [ok : BOOLEAN, archive : SUBSET paths]

\* mutant: DROP TABLE / CREATE TABLE, the table starts empty at every startup
CreateTable(rows) == {}

\* CREATE TABLE IF NOT EXISTS: an existing table keeps its rows
CreateTableIfNotExists(rows) == rows

\* os.makedirs(VOICES_DIR), os.makedirs(AUDIO_DIR), ensure_checkpoints(CHECKPOINT_DIR)
ModuleEnsureCheckpoints ==
    /\ pc = "boot"
    /\ \E download \in Downloads(files, dirs, RequiredV2(CHECKPOINT_DIR), V2ArchivePaths) :
         \E r \in ensure_checkpoints(files, dirs \cup {<<VOICES_DIR>>, <<AUDIO_DIR>>},
                                     CHECKPOINT_DIR, download) :
            /\ files' = r.files
            /\ dirs' = r.dirs
            /\ pc' = IF r.ok THEN "load_converter" ELSE "crashed"
    /\ UNCHANGED <<voice_models, generated_audio, pending, tone_color_converter,
                   call, response, issued>>

\* ToneColorConverter(config.json), load_ckpt(checkpoint.pth): both files are
\* read; the constructor or the load may also reject what it reads.
LoadConverter ==
    /\ pc = "load_converter"
    /\ \E ok \in BOOLEAN :
         /\ ok => /\ <<CHECKPOINT_DIR, "converter", "config.json">> \in files
                  /\ <<CHECKPOINT_DIR, "converter", "checkpoint.pth">> \in files
         /\ tone_color_converter' = IF ok THEN "loaded" ELSE "unloaded"
         /\ pc' = IF ok THEN "init_database" ELSE "crashed"
    /\ UNCHANGED <<files, dirs, voice_models, generated_audio, pending,
                   call, response, issued>>

InitDatabase ==
    /\ pc = "init_database"
    /\ voice_models' = CreateTableIfNotExists(voice_models)
    /\ generated_audio' = CreateTableIfNotExists(generated_audio)
    /\ pc' = "idle"
    /\ UNCHANGED <<files, dirs, pending, tone_color_converter, call, response,
                   issued>>

\* The process is started again (python voice_server.py): the disk and the
\* database file stay, the process state is gone.
Restart ==
    /\ pc \in {"idle", "crashed"}
    /\ pc' = "boot"
    /\ tone_color_converter' = "unloaded"
    /\ pending' = {}
    /\ call' = NoCall
    /\ response' = NoResponse
    /\ UNCHANGED <<files, dirs, voice_models, generated_audio, issued>>

----------------------------------------------------------------------------
(* Helpers of the handlers *)

\* datetime.now().isoformat(): time is logical, the number of ids issued so
\* far; every insert follows the uuid4() of its own call, so rows of different
\* calls carry increasing timestamps
Now == Cardinality(issued)

\* str(uuid.uuid4()): a token not issued before
NewUuid == CHOOSE u \in Uuids \ issued : \A w \in Uuids \ issued : u <= w

\* tempfile.NamedTemporaryFile(delete=False).name: a name that is not on disk
NewTmpPath == <<TMP_DIR, CHOOSE n \in Uuids : /\ <<TMP_DIR, n>> \notin files
                                              /\ \A m \in 1..(n - 1) : <<TMP_DIR, m>> \in files>>

\* file.content_type.startswith('audio/') for a content type that is a string
StartsWithAudio(content_type) == Len(content_type) >= 2 /\ content_type[1] = "audio"

\* Path(file.filename).suffix or '.wav'
FileExtension(filename) == IF filename[2] = "" THEN ".wav" ELSE filename[2]

\* conn.commit(): the rows inserted on the connection become table rows
Commit(table, inserted) == table \cup inserted

\* mutant: the cleanup clears the voices directory
RemoveVoicesDir(F, voice_file_path, se_file_path) == {f \in F : f[1] # VOICES_DIR}

\* if os.path.exists(p): os.remove(p), for the two paths of the failed upload
RemoveUploaded(F, voice_file_path, se_file_path) == F \ {voice_file_path, se_file_path}

\* torch.save(obj, path) / open(path, "wb"): the file exists afterwards
WriteFile(F, path) == F \cup {path}

\* an unhandled exception of a handler: FastAPI answers 500
Unhandled(op) == [op |-> op, status |-> 500, detail |-> "Internal Server Error"]

----------------------------------------------------------------------------
(* POST /upload_voice/, lines 212-271 *)

\* lines 220-229
UploadVoice ==
    /\ pc = "idle"
    /\ issued # Uuids
    /\ \E content_type \in ContentTypes, filename \in Filenames,
          name \in Names, description \in Descriptions :
         LET entry == [op |-> "upload_voice", content_type |-> content_type,
                       wrote |-> FALSE,
                       pre_files |-> files,
                       pre_voice_models |-> voice_models,
                       pre_generated_audio |-> generated_audio]
         IN  IF content_type = {}
             THEN \* None.startswith: AttributeError outside the try
                  /\ response' = Unhandled("upload_voice")
                  /\ call' = entry
                  /\ UNCHANGED <<pc, issued>>
             ELSE IF \E c \in content_type : ~StartsWithAudio(c)
             THEN /\ response' = [op |-> "upload_voice", status |-> 400,
                                  detail |-> "File must be an audio file"]
                  /\ call' = entry
                  /\ UNCHANGED <<pc, issued>>
             ELSE /\ call' = entry @@
                         [name |-> name, description |-> description,
                          voice_id |-> NewUuid,
                          voice_file_path |-> <<VOICES_DIR, NewUuid, FileExtension(filename)>>,
                          se_file_path |-> <<VOICES_DIR, NewUuid, ".pth">>]
                  /\ issued' = issued \cup {NewUuid}
                  /\ pc' = "u_write"
                  /\ response' = NoResponse
    /\ UNCHANGED <<files, dirs, voice_models, generated_audio, pending,
                   tone_color_converter>>

\* lines 231-232, outside the try: open() may fail, and copyfileobj may fail
\* after open() created the file
UploadWrite ==
    /\ pc = "u_write"
    /\ \/ /\ files' = WriteFile(files, call.voice_file_path)
          /\ call' = [call EXCEPT !.wrote = TRUE]
          /\ pc' = "u_get_se"
          /\ UNCHANGED response
       \/ /\ files' \in {files, WriteFile(files, call.voice_file_path)}
          /\ response' = Unhandled("upload_voice")
          /\ pc' = "idle"
          /\ UNCHANGED call
    /\ UNCHANGED <<dirs, voice_models, generated_audio, pending,
                   tone_color_converter, issued>>

\* lines 236-240
UploadGetSe ==
    /\ pc = "u_get_se"
    /\ pc' \in {"u_save", "u_except"}
    /\ UNCHANGED <<files, dirs, voice_models, generated_audio, pending,
                   tone_color_converter, call, response, issued>>

\* line 244: torch.save may fail after it created the file
UploadSave ==
    /\ pc = "u_save"
    /\ \/ /\ files' = WriteFile(files, call.se_file_path)
          /\ pc' = "u_insert"
       \/ /\ files' \in {files, WriteFile(files, call.se_file_path)}
          /\ pc' = "u_except"
    /\ UNCHANGED <<dirs, voice_models, generated_audio, pending,
                   tone_color_converter, call, response, issued>>

\* lines 247-253
UploadInsert ==
    /\ pc = "u_insert"
    /\ \/ /\ pending' = {[id |-> call.voice_id, name |-> call.name,
                          description |-> call.description,
                          file_path |-> call.voice_file_path,
                          se_file_path |-> call.se_file_path,
                          created_at |-> Now]}
          /\ pc' = "u_commit"
       \/ /\ pc' = "u_except"
          /\ UNCHANGED pending
    /\ UNCHANGED <<files, dirs, voice_models, generated_audio,
                   tone_color_converter, call, response, issued>>

\* lines 255-263
UploadCommit ==
    /\ pc = "u_commit"
    /\ \/ /\ voice_models' = Commit(voice_models, pending)
          /\ pending' = {}
          /\ response' = [op |-> "upload_voice", status |-> 200,
                          voice_id |-> call.voice_id, name |-> call.name,
                          description |-> call.description]
          /\ pc' = "idle"
       \/ /\ pc' = "u_except"
          /\ UNCHANGED <<voice_models, pending, response>>
    /\ UNCHANGED <<files, dirs, generated_audio, tone_color_converter, call,
                   issued>>

\* lines 265-271; the connection of the try block is dropped unclosed, which
\* rolls its open transaction back
UploadExcept ==
    /\ pc = "u_except"
    /\ files' = RemoveUploaded(files, call.voice_file_path, call.se_file_path)
    /\ pending' = {}
    /\ response' = [op |-> "upload_voice", status |-> 500,
                    detail |-> "Voice processing failed"]
    /\ pc' = "idle"
    /\ UNCHANGED <<dirs, voice_models, generated_audio, tone_color_converter,
                   call, issued>>

----------------------------------------------------------------------------
(* POST /synthesize/, lines 295-383 *)

\* lines 145-157
ACCENT_TO_SES_FILE ==
    ("en-au" :> "en-au.pth") @@ ("en-br" :> "en-br.pth") @@
    ("en-default" :> "en-default.pth") @@ ("en-india" :> "en-india.pth") @@
    ("en-newest" :> "en-newest.pth") @@ ("en-us" :> "en-us.pth") @@
    ("es" :> "es.pth") @@ ("fr" :> "fr.pth") @@ ("jp" :> "jp.pth") @@
    ("kr" :> "kr.pth") @@ ("zh" :> "zh.pth")

\* mutant: the map is not consulted
SesFileDefault(accent) == "en-newest.pth"

\* ACCENT_TO_SES_FILE.get(request.accent, 'en-newest.pth')
SesFile(accent) ==
    IF accent \in DOMAIN ACCENT_TO_SES_FILE THEN ACCENT_TO_SES_FILE[accent]
    ELSE "en-newest.pth"

\* mutant: the SELECT without its WHERE clause
SelectAnySeFilePath(table, voice_id) == {v.se_file_path : v \in table}

\* SELECT se_file_path FROM voice_models WHERE id = ?
SelectSeFilePath(table, voice_id) == {v.se_file_path : v \in {w \in table : w.id = voice_id}}

\* mutant: convert is called without output_path and only returns the audio
ConvertReturnsAudio(F, output_path) == F

\* tone_color_converter.convert(..., output_path=output_path) writes the
\* converted audio to output_path
ConvertOutput(F, output_path) == F \cup {output_path}

\* mutant: the first two values of the INSERT are swapped
GeneratedAudioRowSwapped(output_id, request, output_path, now) ==
    [id |-> request.voice_id, voice_id |-> output_id, text |-> request.text,
     file_path |-> output_path, accent |-> request.accent,
     speed |-> request.speed, created_at |-> now]

\* the row of INSERT INTO generated_audio, lines 365-368
GeneratedAudioRow(output_id, request, output_path, now) ==
    [id |-> output_id, voice_id |-> request.voice_id, text |-> request.text,
     file_path |-> output_path, accent |-> request.accent,
     speed |-> request.speed, created_at |-> now]

Requests == [text : Texts, voice_id : RequestIds, accent : Accents, speed : Speeds]

V2_EN_V2_CFG == <<CHECKPOINT_DIR, "base_speakers", "EN_V2", "config.json">>
V2_EN_V2_CKPT == <<CHECKPOINT_DIR, "base_speakers", "EN_V2", "checkpoint.pth">>

SynthFields == <<files, dirs, voice_models, generated_audio, pending,
                 tone_color_converter, response, issued>>

\* lines 299-310
SynthesizeSpeech ==
    /\ pc = "idle"
    /\ issued # Uuids
    /\ \E request \in Requests :
         LET result == SelectSeFilePath(voice_models, request.voice_id)
             entry == [op |-> "synthesize_speech", request |-> request,
                       done |-> <<>>,
                       pre_voice_models |-> voice_models,
                       pre_generated_audio |-> generated_audio]
         IN  \/ /\ result = {}
                /\ response' = [op |-> "synthesize_speech", status |-> 404,
                                detail |-> "Voice model not found"]
                /\ call' = entry
                /\ UNCHANGED pc
             \/ /\ result # {}
                /\ call' = [entry EXCEPT !.done = <<"lookup">>] @@
                           [se_file_path |-> CHOOSE x \in result : TRUE]
                /\ pc' = "s_load_se"
                /\ response' = NoResponse
    /\ UNCHANGED <<files, dirs, voice_models, generated_audio, pending,
                   tone_color_converter, issued>>

Did(step) == [call EXCEPT !.done = Append(@, step)]

\* line 315: torch.load(se_file_path)
SynthLoadSe ==
    /\ pc = "s_load_se"
    /\ \/ /\ call.se_file_path \in files
          /\ call' = Did("load_se")
          /\ pc' = "s_tmp"
       \/ /\ pc' = "s_except"
          /\ UNCHANGED call
    /\ UNCHANGED SynthFields

\* lines 318-323
SynthTmp ==
    /\ pc = "s_tmp"
    /\ issued' = issued \cup {NewUuid}
    /\ \/ /\ files' = WriteFile(files, NewTmpPath)
          /\ call' = Did("tmp") @@ [output_id |-> NewUuid,
                                    output_path |-> <<AUDIO_DIR, NewUuid, ".wav">>,
                                    tmp_path |-> NewTmpPath]
          /\ pc' = "s_base"
       \/ /\ pc' = "s_except"
          /\ UNCHANGED <<files, call>>
    /\ UNCHANGED <<dirs, voice_models, generated_audio, pending,
                   tone_color_converter, response>>

\* lines 326-333
SynthBase ==
    /\ pc = "s_base"
    /\ IF exists(files, dirs, V2_EN_V2_CFG) /\ exists(files, dirs, V2_EN_V2_CKPT)
       THEN /\ call' = Did("base") @@ [base_cfg |-> V2_EN_V2_CFG,
                                       base_ckpt |-> V2_EN_V2_CKPT]
            /\ pc' = "s_model"
            /\ UNCHANGED <<files, dirs>>
       ELSE \E download \in Downloads(files, dirs, RequiredV1, V1ArchivePaths) :
              \E r \in ensure_base_checkpoints_v1(files, dirs, download) :
                /\ files' = r.files
                /\ dirs' = r.dirs
                /\ IF r.ok
                   THEN /\ call' = Did("base") @@
                               [base_cfg |-> <<V1_BASE_DIR, "base_speakers", "EN", "config.json">>,
                                base_ckpt |-> <<V1_BASE_DIR, "base_speakers", "EN", "checkpoint.pth">>]
                        /\ pc' = "s_model"
                   ELSE /\ pc' = "s_except"
                        /\ UNCHANGED call
    /\ UNCHANGED <<voice_models, generated_audio, pending, tone_color_converter,
                   response, issued>>

\* lines 336-337: BaseSpeakerTTS(base_cfg), model.load_ckpt(base_ckpt)
SynthModel ==
    /\ pc = "s_model"
    /\ \/ /\ call.base_cfg \in files
          /\ call.base_ckpt \in files
          /\ call' = Did("model")
          /\ pc' = "s_source_se"
       \/ /\ pc' = "s_except"
          /\ UNCHANGED call
    /\ UNCHANGED SynthFields

\* lines 340-343
SynthSourceSe ==
    /\ pc = "s_source_se"
    /\ LET source_se_path == <<CHECKPOINT_DIR, "base_speakers", "ses",
                               SesFile(call.request.accent)>>
       IN  \/ /\ source_se_path \in files
              /\ call' = Did("source_se") @@ [source_se_path |-> source_se_path]
              /\ pc' = "s_tts"
           \/ /\ pc' = "s_except"
              /\ call' = call @@ [source_se_path |-> source_se_path]
    /\ UNCHANGED SynthFields

\* lines 347-349: model.tts(text, tmp_path, ...)
SynthTts ==
    /\ pc = "s_tts"
    /\ \/ /\ call' = Did("tts")
          /\ pc' = "s_convert"
       \/ /\ pc' = "s_except"
          /\ UNCHANGED call
    /\ UNCHANGED SynthFields

\* lines 352-359: a failing convert may have created the output file
SynthConvert ==
    /\ pc = "s_convert"
    /\ \/ /\ files' = ConvertOutput(files, call.output_path)
          /\ call' = Did("convert")
          /\ pc' = "s_unlink"
       \/ /\ files' \in {files, ConvertOutput(files, call.output_path)}
          /\ pc' = "s_except"
          /\ UNCHANGED call
    /\ UNCHANGED <<dirs, voice_models, generated_audio, pending,
                   tone_color_converter, response, issued>>

\* line 362
SynthUnlink ==
    /\ pc = "s_unlink"
    /\ files' = files \ {call.tmp_path}
    /\ call' = Did("unlink")
    /\ pc' = "s_insert"
    /\ UNCHANGED <<dirs, voice_models, generated_audio, pending,
                   tone_color_converter, response, issued>>

\* lines 365-368
SynthInsert ==
    /\ pc = "s_insert"
    /\ \/ /\ pending' = {GeneratedAudioRow(call.output_id, call.request,
                                            call.output_path, Now)}
          /\ call' = Did("insert")
          /\ pc' = "s_commit"
       \/ /\ pc' = "s_except"
          /\ UNCHANGED <<pending, call>>
    /\ UNCHANGED <<files, dirs, voice_models, generated_audio,
                   tone_color_converter, response, issued>>

\* lines 370-379
SynthCommit ==
    /\ pc = "s_commit"
    /\ \/ /\ generated_audio' = Commit(generated_audio, pending)
          /\ pending' = {}
          /\ call' = Did("commit")
          /\ response' = [op |-> "synthesize_speech", status |-> 200,
                          audio_id |-> call.output_id,
                          voice_id |-> call.request.voice_id,
                          text |-> call.request.text,
                          file_path |-> call.output_path]
          /\ pc' = "idle"
       \/ /\ pc' = "s_except"
          /\ UNCHANGED <<generated_audio, pending, call, response>>
    /\ UNCHANGED <<files, dirs, voice_models, tone_color_converter, issued>>

\* lines 381-383: conn.close() drops the uncommitted insert
SynthExcept ==
    /\ pc = "s_except"
    /\ pending' = {}
    /\ response' = [op |-> "synthesize_speech", status |-> 500,
                    detail |-> "Speech synthesis failed"]
    /\ pc' = "idle"
    /\ UNCHANGED <<files, dirs, voice_models, generated_audio,
                   tone_color_converter, call, issued>>

----------------------------------------------------------------------------
(* The read-only handlers *)

ReadOnly == UNCHANGED <<files, dirs, voice_models, generated_audio, pending,
                        tone_color_converter, pc, issued>>

\* GET /, lines 208-210
Root ==
    /\ pc = "idle"
    /\ response' = [op |-> "root", status |-> 200, version |-> "2.0.0"]
    /\ call' = [op |-> "root"]
    /\ ReadOnly

\* GET /voices/, lines 273-293
ListVoices ==
    /\ pc = "idle"
    /\ response' = [op |-> "list_voices", status |-> 200,
                    voices |-> {[id |-> v.id, name |-> v.name,
                                 description |-> v.description,
                                 created_at |-> v.created_at] : v \in voice_models}]
    /\ call' = [op |-> "list_voices"]
    /\ ReadOnly

\* GET /audio/{audio_id}, lines 385-400
GetAudio ==
    /\ pc = "idle"
    /\ \E audio_id \in RequestIds :
         LET result == {g.file_path : g \in {h \in generated_audio : h.id = audio_id}}
         IN  /\ response' = IF result = {} \/ \E p \in result : ~exists(files, dirs, p)
                            THEN [op |-> "get_audio", status |-> 404,
                                  detail |-> "Audio file not found"]
                            ELSE [op |-> "get_audio", status |-> 200,
                                  file |-> CHOOSE p \in result : TRUE]
             /\ call' = [op |-> "get_audio"]
    /\ ReadOnly

\* ORDER BY created_at DESC
RECURSIVE OrderByCreatedAtDesc(_)
OrderByCreatedAtDesc(rows) ==
    IF rows = {} THEN <<>>
    ELSE LET first == CHOOSE r \in rows : \A q \in rows : q.created_at <= r.created_at
         IN  <<first>> \o OrderByCreatedAtDesc(rows \ {first})

\* GET /history/, lines 402-430
GetGenerationHistory ==
    /\ pc = "idle"
    /\ LET joined == {<<ga, vm>> \in generated_audio \X voice_models : ga.voice_id = vm.id}
           rows == {[audio_id |-> j[1].id, voice_id |-> j[1].voice_id,
                     voice_name |-> j[2].name, text |-> j[1].text,
                     accent |-> j[1].accent, speed |-> j[1].speed,
                     created_at |-> j[1].created_at] : j \in joined}
       IN  response' = [op |-> "get_generation_history", status |-> 200,
                        history |-> OrderByCreatedAtDesc(rows)]
    /\ call' = [op |-> "get_generation_history"]
    /\ ReadOnly

----------------------------------------------------------------------------
(* Specifications *)

ConverterFiles == {<<CHECKPOINT_DIR, "converter", "config.json">>,
                   <<CHECKPOINT_DIR, "converter", "checkpoint.pth">>}
SesFiles == {<<CHECKPOINT_DIR, "base_speakers", "ses", "en-newest.pth">>,
             <<CHECKPOINT_DIR, "base_speakers", "ses", "en-us.pth">>}

\* The disks the service is started on, after the V2 checkpoints were
\* downloaded once: a complete V2 tree without and with the EN_V2 base
\* speaker; a V2 tree with half of EN_V2 next to an interrupted copy of the
\* V1 tree.
InitDisks ==
    {ConverterFiles \cup SesFiles,
     ConverterFiles \cup SesFiles \cup {V2_EN_V2_CFG, V2_EN_V2_CKPT},
     ConverterFiles \cup SesFiles \cup {V2_EN_V2_CFG}
        \cup {<<V1_BASE_DIR, "base_speakers", "EN", "config.json">>}}

InitProcess ==
    /\ voice_models = {}
    /\ generated_audio = {}
    /\ pending = {}
    /\ tone_color_converter = "unloaded"
    /\ pc = "boot"
    /\ call = NoCall
    /\ response = NoResponse
    /\ issued = {}

Init ==
    /\ files \in InitDisks
    /\ dirs = DirsOf(files)
    /\ InitProcess

Startup == ModuleEnsureCheckpoints \/ LoadConverter \/ InitDatabase \/ Restart

Upload == UploadVoice \/ UploadWrite \/ UploadGetSe \/ UploadSave \/ UploadInsert
             \/ UploadCommit \/ UploadExcept

Synthesize == SynthesizeSpeech \/ SynthLoadSe \/ SynthTmp \/ SynthBase \/ SynthModel
                 \/ SynthSourceSe \/ SynthTts \/ SynthConvert \/ SynthUnlink
                 \/ SynthInsert \/ SynthCommit \/ SynthExcept

Next == Startup \/ Upload \/ Synthesize \/ Root \/ ListVoices \/ GetAudio
           \/ GetGenerationHistory

Spec == Init /\ [][Next]_vars

\* The startup alone, from every content of the checkpoint directory
BootDisks == SUBSET (ConverterFiles \cup SesFiles \cup {V2_EN_V2_CFG})

InitBoot ==
    /\ files \in BootDisks
    /\ dirs \in {DirsOf(files), DirsOf(files) \cup {<<CHECKPOINT_DIR>>},
                 DirsOf(files) \cup {<<CHECKPOINT_DIR>>, <<CHECKPOINT_DIR, "converter">>}}
    /\ InitProcess

SpecBoot == InitBoot /\ [][Startup]_vars

----------------------------------------------------------------------------
(* Claims *)

SynthReturned == pc = "idle" /\ call.op = "synthesize_speech"
                    /\ response.op = "synthesize_speech"
UploadReturned == pc = "idle" /\ call.op = "upload_voice"
                     /\ response.op = "upload_voice"

\* C1: every committed generated_audio row names the id of a committed
\* voice_models row, and a synthesize_speech call for a voice_id that is in no
\* voice_models row answers 404 and leaves generated_audio as it was.
C1_VoiceReferenceResolves ==
    /\ \A g \in generated_audio : \E v \in voice_models : v.id = g.voice_id
    /\ (SynthReturned /\ ~\E v \in call.pre_voice_models : v.id = call.request.voice_id)
          => /\ response.status = 404
             /\ generated_audio = call.pre_generated_audio

\* a 404 for an unknown voice while both tables hold rows
C1_Witness ==
    /\ SynthReturned /\ response.status = 404
    /\ voice_models # {} /\ generated_audio # {}

\* C2: when ensure_checkpoints returned without raising (the startup went on
\* to load the converter), the three required paths exist.
C2_EnsuredCheckpointsExist ==
    pc = "load_converter" =>
        \A p \in RequiredV2(CHECKPOINT_DIR) : exists(files, dirs, p)

\* C3: no step removes or changes a committed row of either table.
C3_AppendOnly ==
    [][voice_models \subseteq voice_models' /\ generated_audio \subseteq generated_audio']_vars

\* init_database has run on tables that hold rows
C3_Witness ==
    /\ pc = "idle" /\ call = NoCall
    /\ voice_models # {} /\ generated_audio # {}

\* C4: a synthesize_speech call answered 200 added exactly one generated_audio
\* row, with the returned audio_id and the request's voice_id, text, accent and
\* speed; a call answered with an error left both tables as they were.
C4_SynthesizeAddsOneRowOrNone ==
    SynthReturned =>
        /\ voice_models = call.pre_voice_models
        /\ pending = {}
        /\ IF response.status = 200
           THEN \E r \in generated_audio :
                  /\ r \notin call.pre_generated_audio
                  /\ generated_audio = call.pre_generated_audio \cup {r}
                  /\ r.id = response.audio_id
                  /\ \A q \in call.pre_generated_audio : q.id # r.id
                  /\ r.voice_id = call.request.voice_id
                  /\ r.text = call.request.text
                  /\ r.accent = call.request.accent
                  /\ r.speed = call.request.speed
           ELSE /\ response.status \in {404, 500}
                /\ generated_audio = call.pre_generated_audio

\* a second successful synthesis
C4_Witness ==
    /\ SynthReturned /\ response.status = 200
    /\ call.pre_generated_audio # {}

IndexOf(seq, x) == CHOOSE i \in 1..Len(seq) : seq[i] = x

InOrder(seq, steps) ==
    /\ \A k \in 1..Len(steps) : \E i \in 1..Len(seq) : seq[i] = steps[k]
    /\ \A k \in 1..(Len(steps) - 1) : IndexOf(seq, steps[k]) < IndexOf(seq, steps[k + 1])

\* C5: when a generated_audio row is committed, the call has done lookup,
\* embedding load, synthesis, conversion, insert and commit in that order, and
\* the row's file_path is on disk.
C5_CommitAfterConversion ==
    [][\A r \in generated_audio' \ generated_audio :
          /\ InOrder(call'.done, <<"lookup", "load_se", "tts", "convert", "insert", "commit">>)
          /\ r.file_path = call'.output_path
          /\ r.file_path \in files']_vars

\* a committed row whose file is on disk, right after its commit
C5_Witness ==
    /\ SynthReturned /\ response.status = 200
    /\ \E r \in generated_audio : r.id = response.audio_id /\ r.file_path \in files

\* C6: an upload that failed after the raw audio was written answers 500 and
\* leaves neither of its two files nor a row with its id; an upload whose
\* content type is not audio/* answers 400 and writes no file and no row.
C6_UploadFailureCleansUp ==
    UploadReturned =>
        /\ (call.wrote /\ response.status # 200) =>
              /\ response.status = 500
              /\ call.voice_file_path \notin files
              /\ call.se_file_path \notin files
              /\ ~\E v \in voice_models : v.id = call.voice_id
        /\ (\A c \in call.content_type : ~StartsWithAudio(c)) =>
              /\ response.status = 400
              /\ files = call.pre_files
              /\ voice_models = call.pre_voice_models
              /\ generated_audio = call.pre_generated_audio

\* C6, the part about the cleanup alone: an upload that failed after the raw
\* audio was written answers 500 and leaves neither file nor row.
C6_CleanupAfterWrite ==
    (UploadReturned /\ call.wrote /\ response.status # 200) =>
        /\ response.status = 500
        /\ call.voice_file_path \notin files
        /\ call.se_file_path \notin files
        /\ ~\E v \in voice_models : v.id = call.voice_id

\* C7: when the base TTS model is constructed, its config and checkpoint
\* exist, and the EN_V2 pair is the one chosen exactly when both its files exist.
C7_BaseCheckpointExists ==
    pc = "s_model" =>
        /\ exists(files, dirs, call.base_cfg)
        /\ exists(files, dirs, call.base_ckpt)
        /\ (call.base_cfg = V2_EN_V2_CFG /\ call.base_ckpt = V2_EN_V2_CKPT)
              <=> (exists(files, dirs, V2_EN_V2_CFG) /\ exists(files, dirs, V2_EN_V2_CKPT))

\* the file the claim expects for an accent
MappedCodes == {"en-au", "en-br", "en-default", "en-india", "en-newest", "en-us",
                "es", "fr", "jp", "kr", "zh"}

ExpectedSesPath(accent) ==
    <<CHECKPOINT_DIR, "base_speakers", "ses">> \o
    <<CASE accent = "en-au" -> "en-au.pth"
        [] accent = "en-br" -> "en-br.pth"
        [] accent = "en-default" -> "en-default.pth"
        [] accent = "en-india" -> "en-india.pth"
        [] accent = "en-newest" -> "en-newest.pth"
        [] accent = "en-us" -> "en-us.pth"
        [] accent = "es" -> "es.pth"
        [] accent = "fr" -> "fr.pth"
        [] accent = "jp" -> "jp.pth"
        [] accent = "kr" -> "kr.pth"
        [] accent = "zh" -> "zh.pth"
        [] OTHER -> "en-newest.pth">>

\* C8: the accent embedding a call loads is the mapped file for each of the 11
\* codes and en-newest.pth for any other accent; the committed row stores the
\* accent of the request.
C8_AccentSelectsSesFile ==
    /\ \A a \in MappedCodes \cup Accents :
          <<CHECKPOINT_DIR, "base_speakers", "ses", SesFile(a)>> = ExpectedSesPath(a)
    /\ DOMAIN ACCENT_TO_SES_FILE = MappedCodes
    /\ (call.op = "synthesize_speech" /\ "source_se_path" \in DOMAIN call) =>
          call.source_se_path = ExpectedSesPath(call.request.accent)
    /\ (SynthReturned /\ response.status = 200) =>
          \A g \in generated_audio :
             g.id = response.audio_id => g.accent = call.request.accent

\* a row stored with an unmapped accent after the fallback file was loaded
C8_Witness ==
    /\ SynthReturned /\ response.status = 200
    /\ call.request.accent \notin MappedCodes
    /\ call.source_se_path = <<CHECKPOINT_DIR, "base_speakers", "ses", "en-newest.pth">>
    /\ \E g \in generated_audio : g.id = response.audio_id /\ g.accent = "de"

\* C9: when synthesize_speech has returned, the temporary file it created is
\* gone.
C9_TmpFileRemoved ==
    (SynthReturned /\ "tmp_path" \in DOMAIN call) => call.tmp_path \notin files

\* C10: both files of every committed voice_models row are on disk.
C10_VoiceFilesOnDisk ==
    \A v \in voice_models : v.file_path \in files /\ v.se_file_path \in files

\* a failed upload has cleaned up while another voice is committed
C10_Witness ==
    /\ UploadReturned /\ call.wrote /\ response.status = 500
    /\ voice_models # {}

====
